---------------------------- MODULE Spec2Model ----------------------------
(***************************************************************************)
(* Model of the report-generation endpoint of adla-serverless.             *)
(*                                                                         *)
(* src/api/generate-report.js holds two revisions of the endpoint:         *)
(*   "v1"  lines 1-91    handler without a credential check, with its own  *)
(*                       numberWithCommas / formatNumber helpers;          *)
(*   "v2"  lines 92-471  handler with origin allow-list, credential check, *)
(*                       formatPropertyDataForAI, createAIPrompt,          *)
(*                       calculateIncomeBracket, calculatePercentage,      *)
(*                       formatPercentile, formatNumber, numberWithCommas. *)
(*                                                                         *)
(* Spec      one invocation of a handler, one action per statement group.  *)
(* SpecData  formatPropertyDataForAI and createAIPrompt of v2 applied to   *)
(*           property records drawn from bounded families.                 *)
(* SpecBracket  calculateIncomeBracket of v2 applied to income records and *)
(*           to ranges drawn from bounded families.                        *)
(*                                                                         *)
(* Numbers are exact rationals: a decimal of a record is held exactly, so  *)
(* toFixed rounds the decimal value, where the engine rounds the nearest   *)
(* double.  Texts use a fixed alphabet without exponent notation.          *)
(***************************************************************************)
EXTENDS Integers, Sequences, FiniteSets, TLC

VARIABLES
    impl,        \* which revision of the handler serves the invocation
    method,      \* req.method
    origin,      \* req.headers.origin
    body,        \* req.body
    apiKey,      \* process.env.OPENAI_API_KEY
    pc,          \* position of the invocation inside handler
    headers,     \* value of Access-Control-Allow-Origin set on res
    status,      \* res.status(...) argument, 0 while none was set
    sent,        \* how the response was emitted: "none", "end" or "json"
    resBody,     \* JSON body handed to res.json, a function from keys to values
    responses,   \* number of responses emitted on res
    calls,       \* number of openai.chat.completions.create invocations
    bodyRead,    \* whether req.body has been read
    propertyData,   \* the property record of the request
    formattedData,  \* the result of formatPropertyDataForAI
    prompt,      \* the user message content handed to the service
    outcome,     \* how the pending downstream call settles
    error,       \* the value bound by catch (its message), "" while none
    range,       \* the min and max handed to calculateIncomeBracket
    added,       \* what each income bin added to inBracket, in bin order
    percentage   \* the text calculateIncomeBracket returned

vars == << impl, method, origin, body, apiKey, pc, headers, status, sent,
           resBody, responses, calls, bodyRead, propertyData, formattedData, prompt,
           outcome, error, range, added, percentage >>

queryVars == << range, added, percentage >>

resVars == << headers, status, sent, resBody, responses >>

reqVars == << impl, method, origin, body, apiKey >>

-----------------------------------------------------------------------------
(* Request and environment inputs *)

Impls == {"v1", "v2"}

Methods == {"OPTIONS", "POST", "GET", "PUT"}

allowedOrigins == {"https://agoratree.xyz", "https://www.agoratree.xyz",
                   "http://localhost:3000", "http://localhost:5000",
                   "http://127.0.0.1:5500"}

Origins == {"", "https://agoratree.xyz", "http://localhost:3000",
            "https://evil.example"}

\* process.env.OPENAI_API_KEY: not set, set to the empty string, or set
ApiKeys == {"unset", "empty", "set"}

KeyFalsy(k) == k \in {"unset", "empty"}

\* req.body: no body at all (undefined), or a parsed JSON object whose
\* propertyData is absent, falsy (null, "", 0, false) or truthy.
Bodies == {"nobody", "missing", "null", "emptystring", "zero", "false",
           "record", "recordWithNotes"}

BodyAbsent(b) == b = "nobody"

PropertyDataFalsy(b) == b \in {"missing", "null", "emptystring", "zero", "false"}

\* Generated texts the service can return
Texts == {"<h1>Report</h1>", "", "  <p>x</p>\n"}

ErrorMessages == {"Connection error.", "429 Rate limit reached"}

\* Settlements of openai.chat.completions.create: a rejection with an Error,
\* or a resolution with a completion object of one of these shapes:
\*   ok             choices[0].message.content is a text
\*   no_choices     the object has no choices
\*   empty_choices  choices is []
\*   no_message     choices[0] has no message
Outcomes ==
    [kind : {"reject"}, shape : {"none"}, content : {""}, usage : {0}, msg : ErrorMessages]
    \cup
    [kind : {"resolve"}, shape : {"ok"}, content : Texts, usage : {0, 42}, msg : {""}]
    \cup
    [kind : {"resolve"}, shape : {"no_choices", "empty_choices", "no_message"},
     content : {""}, usage : {0, 42}, msg : {""}]

NoOutcome == [kind |-> "none", shape |-> "none", content |-> "", usage |-> 0, msg |-> ""]

NoBody == << >>

-----------------------------------------------------------------------------
(* JavaScript values of a property record.                                 *)
(* A number is the exact rational n/d (d > 0); NaN and the infinities are  *)
(* separate kinds.  A string is the sequence of its pieces: every character *)
(* of an input or of a computed number is a piece of its own, a literal of *)
(* the source ("undefined", " acres", "increasing") is one piece.          *)

JSV(t, n, d, s) == [t |-> t, n |-> n, d |-> d, s |-> s]

Undefined == JSV("undefined", 0, 1, << >>)
Null      == JSV("null", 0, 1, << >>)
NaN       == JSV("nan", 0, 1, << >>)
Infinity  == JSV("inf", 1, 1, << >>)
NegInfinity == JSV("inf", -1, 1, << >>)
Rat(n, d) == JSV("num", n, d, << >>)
Int2JS(n) == Rat(n, 1)
Str(s)    == JSV("str", 0, 1, s)

\* no range was handed to calculateIncomeBracket
NoRange == [min |-> Undefined, max |-> Undefined]

IsNum(v) == v.t = "num"
isNaN(v) == v.t = "nan"

\* a < b, a = b for finite numbers
NumLt(a, b) == a.n * b.d < b.n * a.d
NumEq(a, b) == a.n * b.d = b.n * a.d

\* data[k], undefined for a key the object does not have
Get(data, k) == IF k \in DOMAIN data THEN data[k] ELSE Undefined

\* ToBoolean: undefined, null, NaN, 0 and "" are falsy
Truthy(v) ==
    CASE v.t = "undefined" -> FALSE
      [] v.t = "null"      -> FALSE
      [] v.t = "nan"       -> FALSE
      [] v.t = "num"       -> v.n # 0
      [] v.t = "inf"       -> TRUE
      [] v.t = "str"       -> v.s # << >>

Abs(x) == IF x < 0 THEN -x ELSE x

DigitChars == << "0", "1", "2", "3", "4", "5", "6", "7", "8", "9" >>

IsDigit(c) == \E i \in 1..10 : DigitChars[i] = c

DigitVal(c) == (CHOOSE i \in 1..10 : DigitChars[i] = c) - 1

\* \w of the regular expressions: letters, digits and underscore
IsWordChar(c) == IsDigit(c) \/ c \in {"a", "b", "c", "x", "_"}

IsSpace(c) == c = " "

RECURSIVE Digits(_)
\* decimal digits of a natural number
Digits(n) == IF n < 10 THEN << DigitChars[n + 1] >>
             ELSE Digits(n \div 10) \o << DigitChars[(n % 10) + 1] >>

RECURSIVE PadLeft(_, _)
\* s padded on the left with "0" to k characters
PadLeft(s, k) == IF Len(s) >= k THEN s ELSE PadLeft(<< "0" >> \o s, k)

RECURSIVE StripZeros(_)
\* s without its trailing "0" characters
StripZeros(s) == IF s # << >> /\ s[Len(s)] = "0"
                 THEN StripZeros(SubSeq(s, 1, Len(s) - 1)) ELSE s

RECURSIVE Log10(_)
\* k for d = 10^k
Log10(d) == IF d <= 1 THEN 0 ELSE 1 + Log10(d \div 10)

\* the fraction digits frac behind their point, nothing when there are none
FractionPart(frac) == IF frac = << >> THEN << >> ELSE << "." >> \o frac

\* Number.prototype.toString for a finite number whose denominator is a
\* power of ten (every number a record or Math.round supplies).
NumToString(v) ==
    (IF v.n < 0 THEN << "-" >> ELSE << >>)
    \o Digits(Abs(v.n) \div v.d)
    \o FractionPart(StripZeros(PadLeft(Digits(Abs(v.n) % v.d), Log10(v.d))))

\* JSToString
JSToString(v) ==
    CASE v.t = "undefined" -> << "undefined" >>
      [] v.t = "null"      -> << "null" >>
      [] v.t = "nan"       -> << "NaN" >>
      [] v.t = "inf"       -> (IF v.n < 0 THEN << "-" >> ELSE << >>) \o << "Infinity" >>
      [] v.t = "num"       -> NumToString(v)
      [] v.t = "str"       -> v.s

RECURSIVE DropSpaces(_)
DropSpaces(s) == IF s # << >> /\ IsSpace(s[1]) THEN DropSpaces(Tail(s)) ELSE s

RECURSIVE DigitPrefixLen(_)
\* length of the longest prefix of s made of digits
DigitPrefixLen(s) == IF s # << >> /\ IsDigit(s[1]) THEN 1 + DigitPrefixLen(Tail(s)) ELSE 0

RECURSIVE DigitsValue(_)
\* value of a sequence of digits
DigitsValue(s) == IF s = << >> THEN 0
                  ELSE 10 * DigitsValue(SubSeq(s, 1, Len(s) - 1)) + DigitVal(s[Len(s)])

HasSign(t) == t # << >> /\ t[1] \in {"-", "+"}

IsNegative(t) == t # << >> /\ t[1] = "-"

\* u holds il digits, then (when dot) a point and fl digits; lead characters
\* of white space and sign came before
DecimalValue(u, il, dot, fl, neg, lead) ==
    << il + fl > 0,
       (IF neg THEN -1 ELSE 1)
          * (DigitsValue(SubSeq(u, 1, il)) * (10 ^ fl)
             + DigitsValue(SubSeq(u, il + 2, il + 1 + fl))),
       10 ^ fl,
       lead + il + (IF dot /\ (fl > 0 \/ il > 0) THEN 1 + fl ELSE 0) >>

\* the fraction of u behind its il integer digits
DecimalFraction(u, il, neg, lead) ==
    IF il < Len(u) /\ u[il + 1] = "."
    THEN DecimalValue(u, il, TRUE, DigitPrefixLen(SubSeq(u, il + 2, Len(u))), neg, lead)
    ELSE DecimalValue(u, il, FALSE, 0, neg, lead)

\* the sign of t, which has no leading white space; n is the length of the
\* whole text
DecimalSign(t, n) ==
    IF HasSign(t)
    THEN DecimalFraction(Tail(t), DigitPrefixLen(Tail(t)), IsNegative(t), n - Len(t) + 1)
    ELSE DecimalFraction(t, DigitPrefixLen(t), FALSE, n - Len(t))

\* Parse of the longest prefix "[+-] digits [. digits]" of s (after leading
\* white space): << ok, numerator, denominator, characters consumed >>.
DecimalPrefix(s) == DecimalSign(DropSpaces(s), Len(s))

\* the number a parsed prefix p stands for
PrefixNumber(p) == IF p[1] THEN Rat(p[2], p[3]) ELSE NaN

\* parseFloat of a string
ParseFloatStr(s) == PrefixNumber(DecimalPrefix(s))

\* parseFloat(x): the argument is converted with JSToString and its longest
\* numeric prefix is read; a number survives the conversion unchanged.
parseFloat(v) ==
    CASE v.t = "num" -> v
      [] v.t = "inf" -> v
      [] OTHER       -> ParseFloatStr(JSToString(v))

\* the integer the il leading digits of u stand for
IntegerValue(u, il, neg) ==
    IF il = 0 THEN NaN
    ELSE Int2JS((IF neg THEN -1 ELSE 1) * DigitsValue(SubSeq(u, 1, il)))

IntegerSign(t) ==
    IF HasSign(t) THEN IntegerValue(Tail(t), DigitPrefixLen(Tail(t)), IsNegative(t))
    ELSE IntegerValue(t, DigitPrefixLen(t), FALSE)

\* parseInt(x): the integer prefix of JSToString(x)
parseInt(v) == IntegerSign(DropSpaces(JSToString(v)))

RECURSIVE TrimRight(_)
TrimRight(s) == IF s # << >> /\ IsSpace(s[Len(s)])
                THEN TrimRight(SubSeq(s, 1, Len(s) - 1)) ELSE s

\* the number the whole of the parsed text stands for: p is the parse of its
\* prefix, n its length
WholeNumber(p, n) == IF p[1] /\ p[4] = n THEN Rat(p[2], p[3]) ELSE NaN

\* the number a trimmed string stands for
StringToNumber(t) ==
    IF t = << >> THEN Int2JS(0) ELSE WholeNumber(DecimalPrefix(t), Len(t))

\* ToNumber, the conversion the operator / applies to its operands: a string
\* must be numeric as a whole (white space trimmed), "" is 0.
ToNumber(v) ==
    CASE v.t = "undefined" -> NaN
      [] v.t = "null"      -> Int2JS(0)
      [] v.t = "str"       -> StringToNumber(TrimRight(DropSpaces(v.s)))
      [] OTHER             -> v

\* a / b for numbers
Quotient(a, b) ==
    CASE a.t = "nan" \/ b.t = "nan" -> NaN
      [] a.t = "inf" /\ b.t = "inf" -> NaN
      [] a.t = "inf" -> IF b.n < 0 THEN JSV("inf", -a.n, 1, << >>) ELSE a
      [] b.t = "inf" -> Int2JS(0)
      [] b.n = 0 -> IF a.n = 0 THEN NaN
                    ELSE IF a.n < 0 THEN NegInfinity ELSE Infinity
      [] OTHER -> IF b.n < 0 THEN Rat(-(a.n * b.d), a.d * (-b.n))
                  ELSE Rat(a.n * b.d, a.d * b.n)

\* x / y: both operands are converted with ToNumber
Divide(x, y) == Quotient(ToNumber(x), ToNumber(y))

\* Math.round: the nearest integer, halves toward +Infinity
MathRound(v) ==
    IF v.t = "num" THEN Int2JS((2 * v.n + v.d) \div (2 * v.d)) ELSE v

\* the digits of q * 10^-f with f fraction digits
FixedDigits(q, f) ==
    Digits(q \div (10 ^ f))
    \o (IF f = 0 THEN << >> ELSE << "." >> \o PadLeft(Digits(q % (10 ^ f)), f))

\* Number.prototype.toFixed(f) of a finite number: nearest multiple of 10^-f,
\* halves away from zero, the sign kept even when the digits are all zero.
toFixed(v, f) ==
    (IF v.n < 0 THEN << "-" >> ELSE << >>)
    \o FixedDigits((2 * Abs(v.n) * (10 ^ f) + v.d) \div (2 * v.d), f)

-----------------------------------------------------------------------------
(* Helpers of the v2 revision (lines 353-471) *)

NA == << "N", "/", "A" >>

\* lines 459-460: 'N/A' for NaN, value.toFixed(decimals) otherwise
fixedOrNA(value, decimals) ==
    IF isNaN(value) THEN NA
    ELSE IF value.t = "inf" THEN JSToString(value)
    ELSE toFixed(value, decimals)

\* formatNumber(num, decimals), lines 457-461
formatNumber(num, decimals) == fixedOrNA(parseFloat(num), decimals)

RECURSIVE DigitRunLen(_, _)
\* number of consecutive digits of s from position i on
DigitRunLen(s, i) == IF i <= Len(s) /\ IsDigit(s[i]) THEN 1 + DigitRunLen(s, i + 1) ELSE 0

\* /\B(?=(\d{3})+(?!\d))/ matches between s[i] and s[i+1]: not a word
\* boundary, and what follows is a run of digits whose length is a positive
\* multiple of three.
CommaAfter(s, i) ==
    /\ i >= 1 /\ i < Len(s)
    /\ IsWordChar(s[i])
    /\ DigitRunLen(s, i + 1) > 0
    /\ DigitRunLen(s, i + 1) % 3 = 0

RECURSIVE InsertCommas(_, _)
\* s.replace(/\B(?=(\d{3})+(?!\d))/g, ","), from position i on
InsertCommas(s, i) ==
    IF i > Len(s) THEN << >>
    ELSE << s[i] >> \o (IF CommaAfter(s, i) THEN << "," >> ELSE << >>)
         \o InsertCommas(s, i + 1)

\* numberWithCommas(x), lines 468-471
numberWithCommas(x) ==
    IF ~Truthy(x) THEN NA ELSE InsertCommas(JSToString(x), 1)

RECURSIVE StripNonNumeric(_)
\* value.toString().replace(/[^\d.]/g, '')
StripNonNumeric(s) ==
    IF s = << >> THEN << >>
    ELSE (IF IsDigit(s[1]) \/ s[1] = "." THEN << s[1] >> ELSE << >>)
         \o StripNonNumeric(Tail(s))

\* lines 446-448: 'N/A' for NaN, formatNumber(numValue, 0) otherwise
roundedOrNA(numValue) == IF isNaN(numValue) THEN NA ELSE formatNumber(numValue, 0)

\* formatPercentile(value), lines 439-449
formatPercentile(value) ==
    IF ~Truthy(value) THEN NA
    ELSE roundedOrNA(ParseFloatStr(StripNonNumeric(JSToString(value))))

\* a * b for finite numbers and NaN
Times(a, b) ==
    IF a.t = "num" /\ b.t = "num" THEN Rat(a.n * b.n, a.d * b.d) ELSE NaN

\* a + b for finite numbers and NaN
Plus(a, b) ==
    IF a.t = "num" /\ b.t = "num" THEN Rat(a.n * b.d + b.n * a.d, a.d * b.d) ELSE NaN

\* a - b with an infinite a or b
Minus(a, b) ==
    CASE a.t = "num" /\ b.t = "num" -> Rat(a.n * b.d - b.n * a.d, a.d * b.d)
      [] a.t = "inf" /\ b.t = "num" -> a
      [] a.t = "num" /\ b.t = "inf" -> JSV("inf", -b.n, 1, << >>)
      [] a.t = "inf" /\ b.t = "inf" -> IF a.n = b.n THEN NaN ELSE a
      [] OTHER -> NaN

\* a < b and a <= b on numbers with the infinities; false with NaN
ExtLt(a, b) ==
    CASE a.t = "num" /\ b.t = "num" -> NumLt(a, b)
      [] a.t = "num" /\ b.t = "inf" -> b.n > 0
      [] a.t = "inf" /\ b.t = "num" -> a.n < 0
      [] a.t = "inf" /\ b.t = "inf" -> a.n < b.n
      [] OTHER -> FALSE

ExtLe(a, b) ==
    CASE a.t = "nan" \/ b.t = "nan" -> FALSE
      [] OTHER -> ExtLt(a, b) \/ (a.t = b.t /\ NumEq(a, b))

\* lines 427-431, num and den parsed
percentageOf(num, den) ==
    IF isNaN(num) \/ isNaN(den) \/ (den.t = "num" /\ den.n = 0) THEN NA
    ELSE formatNumber(Times(Quotient(num, den), Int2JS(100)), 1)

\* calculatePercentage(numerator, denominator), lines 423-432
calculatePercentage(numerator, denominator) ==
    percentageOf(parseFloat(numerator), parseFloat(denominator))

\* x || 0 on the result of parseInt
OrZero(v) == IF Truthy(v) THEN v ELSE Int2JS(0)

\* the income bins of lines 373-384 for a radius; a bound the source leaves
\* out is undefined
brackets(radius) ==
    << [key |-> "HHInc0_" \o radius,   min |-> Undefined,   max |-> Int2JS(10)],
       [key |-> "HHInc10_" \o radius,  min |-> Int2JS(10),  max |-> Int2JS(15)],
       [key |-> "HHInc15_" \o radius,  min |-> Int2JS(15),  max |-> Int2JS(25)],
       [key |-> "HHInc25_" \o radius,  min |-> Int2JS(25),  max |-> Int2JS(35)],
       [key |-> "HHInc35_" \o radius,  min |-> Int2JS(35),  max |-> Int2JS(50)],
       [key |-> "HHInc50_" \o radius,  min |-> Int2JS(50),  max |-> Int2JS(75)],
       [key |-> "HHInc75_" \o radius,  min |-> Int2JS(75),  max |-> Int2JS(100)],
       [key |-> "HHInc100_" \o radius, min |-> Int2JS(100), max |-> Int2JS(150)],
       [key |-> "HHInc150_" \o radius, min |-> Int2JS(150), max |-> Int2JS(200)],
       [key |-> "HHInc200_" \o radius, min |-> Int2JS(200), max |-> Undefined] >>

\* lines 392-405: what a bin with bracketValue households between bracketMin
\* and bracketMax adds to inBracket for the range min..max
overlapShare(bracketValue, bracketMin, bracketMax, min, max) ==
    IF (ExtLe(min, bracketMin) \/ (bracketMin.t = "num" /\ bracketMin.n = 0))
       /\ ExtLe(bracketMax, max)
    THEN bracketValue
    ELSE IF ExtLt(bracketMin, min) /\ ExtLt(min, bracketMax)
    THEN Times(bracketValue,
               Quotient(Minus(bracketMax, min), Minus(bracketMax, bracketMin)))
    ELSE IF ExtLt(bracketMin, max) /\ ExtLt(max, bracketMax)
    THEN Times(bracketValue,
               Quotient(Minus(max, bracketMin), Minus(bracketMax, bracketMin)))
    ELSE Int2JS(0)

\* what one bin adds to inBracket, the body of the forEach of lines 387-406
bracketShare(data, bracket, min, max) ==
    overlapShare(OrZero(parseInt(Get(data, bracket.key))),
                 IF Truthy(bracket.min) THEN bracket.min ELSE Int2JS(0),
                 IF Truthy(bracket.max) THEN bracket.max ELSE Infinity,
                 min, max)

RECURSIVE sumBrackets(_, _, _, _, _)
\* inBracket after the bins i.. of bs have been visited
sumBrackets(data, bs, i, min, max) ==
    IF i > Len(bs) THEN Int2JS(0)
    ELSE Plus(bracketShare(data, bs[i], min, max), sumBrackets(data, bs, i + 1, min, max))

\* lines 409-410: formatNumber((inBracket / total) * 100, 1)
bracketPercentage(inBracket, total) ==
    formatNumber(Times(Quotient(inBracket, total), Int2JS(100)), 1)

\* calculateIncomeBracket(data, radius, min, max), lines 361-415
calculateIncomeBracket(data, radius, min, max) ==
    IF OrZero(parseInt(Get(data, "TotHHs_" \o radius))).n = 0 THEN NA
    ELSE bracketPercentage(sumBrackets(data, brackets(radius), 1, min, max),
                           OrZero(parseInt(Get(data, "TotHHs_" \o radius))))

-----------------------------------------------------------------------------
(* formatPropertyDataForAI and createAIPrompt of the v2 revision *)

\* x ? a : b and x || 'N/A' inside a template literal
OrNA(v) == IF Truthy(v) THEN JSToString(v) ELSE NA

DerivedKeys ==
    {"formattedPrice", "pricePerAcre",
     "Home_Affordability_Percentile_Formatted", "Rent_Affordability_Percentile_Formatted",
     "Convenience_Index_Percentile_Formatted", "Population_Access_Percentile_Formatted",
     "Market_Saturation_Percentile_Formatted", "Composite_Score_Percentile_Formatted",
     "popGrowthTrend5m", "popGrowthTrendMessage5m",
     "popGrowthTrend10m", "popGrowthTrendMessage10m"}

PercentileKeys ==
    {"Home_Affordability_Percentile", "Rent_Affordability_Percentile",
     "Convenience_Index_Percentile", "Population_Access_Percentile",
     "Market_Saturation_Percentile", "Composite_Score_Percentile"}

\* future > current ? 'increasing' : future < current ? 'decreasing' : 'stable'
trendLabel(current, future) ==
    IF ExtLt(current, future) THEN "increasing"
    ELSE IF ExtLt(future, current) THEN "decreasing" ELSE "stable"

\* the guard of lines 240-244 (251-255): both fields truthy and both parse
trendDefined(data, curKey, futKey) ==
    /\ Truthy(Get(data, curKey)) /\ Truthy(Get(data, futKey))
    /\ ~isNaN(parseFloat(Get(data, curKey)))
    /\ ~isNaN(parseFloat(Get(data, futKey)))

\* popGrowthTrend5m / popGrowthTrend10m, lines 245-246 and 256-257
popGrowthTrend(data, curKey, futKey) ==
    IF trendDefined(data, curKey, futKey)
    THEN Str(<< trendLabel(parseFloat(Get(data, curKey)), parseFloat(Get(data, futKey))) >>)
    ELSE Get(data, "popGrowthTrend" \o (IF curKey = "%_Pop_Grwth_2020-2024(5m)" THEN "5m" ELSE "10m"))

\* popGrowthTrendMessage5m / popGrowthTrendMessage10m, lines 247 and 258
popGrowthTrendMessage(data, miles, curKey, futKey) ==
    IF trendDefined(data, curKey, futKey)
    THEN Str(<< "Population growth within " \o miles \o " miles is ",
                trendLabel(parseFloat(Get(data, curKey)), parseFloat(Get(data, futKey))),
                " (" >>
             \o formatNumber(parseFloat(Get(data, curKey)), 2) \o << "% to " >>
             \o formatNumber(parseFloat(Get(data, futKey)), 2) \o << "%)" >>)
    ELSE Get(data, "popGrowthTrendMessage" \o miles \o "m")

\* pricePerAcre, lines 207-212
pricePerAcre(data) ==
    IF Truthy(Get(data, "For_Sale_Price")) /\ Truthy(Get(data, "Land_Area_AC"))
    THEN << "$" >> \o numberWithCommas(
             MathRound(Divide(Get(data, "For_Sale_Price"), Get(data, "Land_Area_AC"))))
    ELSE NA

\* formattedPrice, line 205
formattedPrice(data) ==
    IF Truthy(Get(data, "For_Sale_Price"))
    THEN << "$" >> \o numberWithCommas(Get(data, "For_Sale_Price"))
    ELSE NA

\* X_Formatted for a percentile field X, lines 215-237: set when X is truthy
percentileFormatted(data, key) ==
    IF Truthy(Get(data, key)) THEN Str(formatPercentile(Get(data, key)))
    ELSE Get(data, key \o "_Formatted")

\* formatPropertyDataForAI(data), lines 200-263: a copy of data with the
\* computed fields added
formatPropertyDataForAI(data) ==
    [k \in DOMAIN data \cup DerivedKeys |->
        CASE k = "formattedPrice" -> Str(formattedPrice(data))
          [] k = "pricePerAcre"   -> Str(pricePerAcre(data))
          [] k \in {p \o "_Formatted" : p \in PercentileKeys} ->
                LET p == CHOOSE q \in PercentileKeys : q \o "_Formatted" = k
                IN  percentileFormatted(data, p)
          [] k = "popGrowthTrend5m" ->
                popGrowthTrend(data, "%_Pop_Grwth_2020-2024(5m)", "%_Pop_Grwth_2024-2029(5m)")
          [] k = "popGrowthTrendMessage5m" ->
                popGrowthTrendMessage(data, "5", "%_Pop_Grwth_2020-2024(5m)", "%_Pop_Grwth_2024-2029(5m)")
          [] k = "popGrowthTrend10m" ->
                popGrowthTrend(data, "%_Pop_Grwth_2020-2024(10m)", "%_Pop_Grwth_2024-2029(10m)")
          [] k = "popGrowthTrendMessage10m" ->
                popGrowthTrendMessage(data, "10", "%_Pop_Grwth_2020-2024(10m)", "%_Pop_Grwth_2024-2029(10m)")
          [] OTHER -> data[k]]

\* the interpolations of the prompt template that only substitute 'N/A'
TextLines ==
    [l \in {"Stock Number", "Address", "City", "State", "Zip", "County", "Price",
            "Price Per Acre", "Zoning", "Proposed Use", "Last Sale Date",
            "Last Sale Price", "In SFHA", "FEMA Flood Zone", "FEMA Map Date",
            "Floodplain Area", "Home Affordability", "Rent Affordability",
            "Convenience Index", "Population Access", "Market Saturation",
            "Composite Score"} |->
        CASE l = "Stock Number"    -> "StockNumber"
          [] l = "Address"         -> "Property_Address"
          [] l = "City"            -> "City"
          [] l = "State"           -> "State"
          [] l = "Zip"             -> "Zip"
          [] l = "County"          -> "County_Name"
          [] l = "Price"           -> "formattedPrice"
          [] l = "Price Per Acre"  -> "pricePerAcre"
          [] l = "Zoning"          -> "Zoning"
          [] l = "Proposed Use"    -> "Proposed_Land_Use"
          [] l = "Last Sale Date"  -> "Last_Sale_Date"
          [] l = "Last Sale Price" -> "Last_Sale_Price"
          [] l = "In SFHA"         -> "In_SFHA"
          [] l = "FEMA Flood Zone" -> "Fema_Flood_Zone"
          [] l = "FEMA Map Date"   -> "FEMA_Map_Date"
          [] l = "Floodplain Area" -> "Floodplain_Area"
          [] l = "Home Affordability" -> "Home_Affordability_Percentile_Formatted"
          [] l = "Rent Affordability" -> "Rent_Affordability_Percentile_Formatted"
          [] l = "Convenience Index"  -> "Convenience_Index_Percentile_Formatted"
          [] l = "Population Access"  -> "Population_Access_Percentile_Formatted"
          [] l = "Market Saturation"  -> "Market_Saturation_Percentile_Formatted"
          [] l = "Composite Score"    -> "Composite_Score_Percentile_Formatted"]

\* data.X ? formatNumber(data.X, 2) + '%' : 'N/A', lines 294-297
GrowthLines ==
    [l \in {"Growth 5m 2020-2024", "Growth 5m 2024-2029",
            "Growth 10m 2020-2024", "Growth 10m 2024-2029"} |->
        CASE l = "Growth 5m 2020-2024"  -> "%_Pop_Grwth_2020-2024(5m)"
          [] l = "Growth 5m 2024-2029"  -> "%_Pop_Grwth_2024-2029(5m)"
          [] l = "Growth 10m 2020-2024" -> "%_Pop_Grwth_2020-2024(10m)"
          [] l = "Growth 10m 2024-2029" -> "%_Pop_Grwth_2024-2029(10m)"]

\* data.X ? numberWithCommas(data.X) : 'N/A', lines 302-306 and 316
CountLines ==
    [l \in {"Population 5", "Population 10", "Population 15", "Population 20",
            "Population 25", "Total Housing Units"} |->
        CASE l = "Population 5"  -> "TotPop_5"
          [] l = "Population 10" -> "TotPop_10"
          [] l = "Population 15" -> "TotPop_15"
          [] l = "Population 20" -> "TotPop_20"
          [] l = "Population 25" -> "TotPop_25"
          [] l = "Total Housing Units" -> "TotHUs_5"]

\* data.X ? '$' + numberWithCommas(data.X) : 'N/A', lines 309-310, 320-322
DollarLines ==
    [l \in {"Median Household Income", "Average Household Income",
            "Median Home Value", "Median Gross Rent", "Average Gross Rent"} |->
        CASE l = "Median Household Income"  -> "MedianHHInc_5"
          [] l = "Average Household Income" -> "AvgHHInc_5"
          [] l = "Median Home Value"        -> "MedianHValue_5"
          [] l = "Median Gross Rent"        -> "MedianGrossRent_5"
          [] l = "Average Gross Rent"       -> "AvgGrossRent_5"]

\* data.X ? numberWithCommas(data.X) + ' (' + calculatePercentage(data.X, data.Y) + '%)' : 'N/A',
\* lines 317-319: << X, Y >>
OccupancyLines ==
    [l \in {"Owner Occupied", "Renter Occupied", "Vacant Units"} |->
        CASE l = "Owner Occupied"  -> << "OwnerOcc_5", "OccHUs_5" >>
          [] l = "Renter Occupied" -> << "RenterOcc_5", "OccHUs_5" >>
          [] l = "Vacant Units"    -> << "VacHUs_5", "TotHUs_5" >>]

\* data.D ? formatNumber(data.D, 1) + ' miles (' + data.T + ' min travel time)' : 'N/A',
\* lines 325-327: << D, T >>
AmenityLines ==
    [l \in {"Nearest Walmart", "Nearest Hospital", "Nearest Park"} |->
        CASE l = "Nearest Walmart"  -> << "Nearest_Walmart_Distance_Miles", "Nearest_Walmart_Travel_Time_Minutes" >>
          [] l = "Nearest Hospital" -> << "Nearest_Hospital_Distance_Miles", "Nearest_Hospital_Travel_Time_Minutes" >>
          [] l = "Nearest Park"     -> << "Nearest_Park_Distance_Miles", "Nearest_Park_Travel_Time_Minutes" >>]

\* calculateIncomeBracket(data, '5', min, max) + '%', lines 311-313: << min, max >>
IncomeLines ==
    [l \in {"Low Income", "Middle Income", "High Income"} |->
        CASE l = "Low Income"    -> << Int2JS(0), Int2JS(35) >>
          [] l = "Middle Income" -> << Int2JS(35), Int2JS(100) >>
          [] l = "High Income"   -> << Int2JS(100), Infinity >>]

PromptLines ==
    DOMAIN TextLines \cup DOMAIN GrowthLines \cup DOMAIN CountLines
    \cup DOMAIN DollarLines \cup DOMAIN OccupancyLines \cup DOMAIN AmenityLines
    \cup DOMAIN IncomeLines
    \cup {"Land Area", "Trend 5m", "Trend 10m", "Analyst Notes"}

\* createAIPrompt(data, userNarrative), lines 271-351: the text each
\* interpolation of the template contributes, by the line it stands on
createAIPrompt(data, userNarrative) ==
    [l \in PromptLines |->
        CASE l \in DOMAIN TextLines -> OrNA(Get(data, TextLines[l]))
          [] l = "Land Area" ->
                IF Truthy(Get(data, "Land_Area_AC"))
                THEN formatNumber(Get(data, "Land_Area_AC"), 2) \o << " acres" >>
                ELSE NA
          [] l \in DOMAIN GrowthLines ->
                IF Truthy(Get(data, GrowthLines[l]))
                THEN formatNumber(Get(data, GrowthLines[l]), 2) \o << "%" >>
                ELSE NA
          [] l = "Trend 5m" ->
                IF Truthy(Get(data, "popGrowthTrendMessage5m"))
                THEN << "- " >> \o JSToString(Get(data, "popGrowthTrendMessage5m"))
                ELSE << >>
          [] l = "Trend 10m" ->
                IF Truthy(Get(data, "popGrowthTrendMessage10m"))
                THEN << "- " >> \o JSToString(Get(data, "popGrowthTrendMessage10m"))
                ELSE << >>
          [] l \in DOMAIN CountLines ->
                IF Truthy(Get(data, CountLines[l]))
                THEN numberWithCommas(Get(data, CountLines[l]))
                ELSE NA
          [] l \in DOMAIN DollarLines ->
                IF Truthy(Get(data, DollarLines[l]))
                THEN << "$" >> \o numberWithCommas(Get(data, DollarLines[l]))
                ELSE NA
          [] l \in DOMAIN IncomeLines ->
                calculateIncomeBracket(data, "5", IncomeLines[l][1], IncomeLines[l][2])
                \o << "%" >>
          [] l \in DOMAIN OccupancyLines ->
                IF Truthy(Get(data, OccupancyLines[l][1]))
                THEN numberWithCommas(Get(data, OccupancyLines[l][1])) \o << " (" >>
                     \o calculatePercentage(Get(data, OccupancyLines[l][1]),
                                            Get(data, OccupancyLines[l][2]))
                     \o << "%)" >>
                ELSE NA
          [] l \in DOMAIN AmenityLines ->
                IF Truthy(Get(data, AmenityLines[l][1]))
                THEN formatNumber(Get(data, AmenityLines[l][1]), 1) \o << " miles (" >>
                     \o JSToString(Get(data, AmenityLines[l][2]))
                     \o << " min travel time)" >>
                ELSE NA
          [] l = "Analyst Notes" ->
                IF Truthy(userNarrative) THEN JSToString(userNarrative)
                ELSE << "No additional notes provided by the analyst." >>]

-----------------------------------------------------------------------------
(* Helpers and summary of the v1 revision (lines 34-51, 83-91) *)

\* numberWithCommas(x) of lines 84-86: no guard on x
numberWithCommas1(x) == InsertCommas(JSToString(x), 1)

\* toFixed of a number that may be NaN or infinite
fixedOrText(value, decimals) ==
    IF value.t = "num" THEN toFixed(value, decimals) ELSE JSToString(value)

\* formatNumber(num, decimals) of lines 89-91: Number(num).toFixed(decimals)
formatNumber1(num, decimals) == fixedOrText(ToNumber(num), decimals)

\* the interpolations of propertySummary, lines 35-51, by the line they stand on
propertySummary(pd) ==
    LET d(k)  == Get(pd, k)
        dollar(k, alt) == IF Truthy(d(k)) THEN << "$" >> \o numberWithCommas1(d(k)) ELSE alt
        fixed(k, n, unit) == IF Truthy(d(k)) THEN formatNumber1(d(k), n) \o unit ELSE NA
    IN  [l \in {"Property Stock #", "County", "State", "Price", "Acres", "Price Per Acre",
                "Composite Score", "Demand for Attainable Rent", "Housing Gap",
                "Home Affordability Gap", "Weighted Demand and Convenience",
                "Walmart Distance", "Population", "Median Income", "Median Home Value",
                "Population Growth"} |->
            CASE l = "Property Stock #" -> JSToString(d("StockNumber"))
              [] l = "County" -> OrNA(d("County"))
              [] l = "State"  -> OrNA(d("State"))
              [] l = "Price"  -> dollar("For Sale Price", << "Not priced" >>)
              [] l = "Acres"  -> fixed("Land Area (AC)", 2, << >>)
              [] l = "Price Per Acre" -> dollar("Price Per Acre", NA)
              [] l = "Composite Score" -> fixed("Composite Score", 1, << >>)
              [] l = "Demand for Attainable Rent" -> fixed("Demand for Attainable Rent", 1, << >>)
              [] l = "Housing Gap" -> fixed("Housing Gap", 1, << >>)
              [] l = "Home Affordability Gap" -> fixed("Home Affordability Gap", 1, << >>)
              [] l = "Weighted Demand and Convenience" -> fixed("Weighted Demand and Convenience", 1, << >>)
              [] l = "Walmart Distance" -> fixed("Walmart Distance (mi)", 1, << " miles" >>)
              [] l = "Population" -> IF Truthy(d("Population")) THEN numberWithCommas1(d("Population")) ELSE NA
              [] l = "Median Income" -> dollar("Median Income", NA)
              [] l = "Median Home Value" -> dollar("Median Home Value", NA)
              [] l = "Population Growth" -> fixed("Population Growth", 1, << "%" >>)]

-----------------------------------------------------------------------------
(* The requests of the handler specification *)

\* the propertyData of a request body that carries one
PropertyDataOf(b) ==
    LET base == [k \in {"StockNumber", "State", "For_Sale_Price", "Land_Area_AC",
                        "For Sale Price", "Land Area (AC)", "TotPop_5",
                        "Home_Affordability_Percentile"} |->
                    CASE k = "StockNumber" -> Str(<< "A", "1" >>)
                      [] k = "State" -> Str(<< "T", "X" >>)
                      [] k \in {"For_Sale_Price", "For Sale Price"} -> Int2JS(500000)
                      [] k \in {"Land_Area_AC", "Land Area (AC)"} -> Str(<< "2", "0" >>)
                      [] k = "TotPop_5" -> Int2JS(12345)
                      [] k = "Home_Affordability_Percentile" -> Str(<< "8", "7", ".", "4", "%" >>)]
    IN  IF b = "recordWithNotes"
        THEN [k \in DOMAIN base \cup {"userNarrative"} |->
                 IF k = "userNarrative" THEN Str(<< "n", "o", "t", "e" >>) ELSE base[k]]
        ELSE base

-----------------------------------------------------------------------------
Init ==
    /\ impl \in Impls
    /\ method \in Methods
    /\ origin \in Origins
    /\ body \in Bodies
    /\ apiKey \in ApiKeys
    /\ pc = "cors"
    /\ headers = ""
    /\ status = 0
    /\ sent = "none"
    /\ resBody = NoBody
    /\ responses = 0
    /\ calls = 0
    /\ bodyRead = FALSE
    /\ propertyData = << >>
    /\ formattedData = << >>
    /\ prompt = << >>
    /\ outcome = NoOutcome
    /\ error = ""
    /\ range = NoRange
    /\ added = << >>
    /\ percentage = << >>

-----------------------------------------------------------------------------
(* handler: one action per statement group.  Every line reference gives    *)
(* the v1 lines first and the v2 lines second.                             *)

\* res.status(code).json(payload) / res.status(code).end()
Respond(code, how, payload) ==
    /\ status' = code
    /\ sent' = how
    /\ resBody' = payload
    /\ responses' = responses + 1
    /\ pc' = "done"

\* lines 5-8 / 96-114: the CORS headers
SetCorsHeaders ==
    /\ pc = "cors"
    /\ headers' = IF impl = "v2" /\ origin # "" /\ origin \in allowedOrigins
                  THEN origin ELSE "*"
    /\ pc' = "preflight"
    /\ UNCHANGED << reqVars, queryVars, status, sent, resBody, responses, calls, bodyRead,
                    propertyData, formattedData, prompt, outcome, error >>


\* the preflight answer without its return: the handler goes on into the try block
HandlePreflightFallsThrough ==
    /\ pc = "preflight"
    /\ method = "OPTIONS"
    /\ status' = 200
    /\ sent' = "end"
    /\ resBody' = NoBody
    /\ responses' = responses + 1
    /\ pc' = "method"
    /\ UNCHANGED << reqVars, queryVars, headers, calls, bodyRead, propertyData, formattedData,
                    prompt, outcome, error >>

\* lines 11-14 / 117-120: the preflight answer
HandlePreflight ==
    /\ pc = "preflight"
    /\ method = "OPTIONS"
    /\ Respond(200, "end", NoBody)
    /\ UNCHANGED << reqVars, queryVars, headers, calls, bodyRead, propertyData, formattedData, prompt, outcome, error >>

\* lines 16 / 122: the method is not OPTIONS, the try block is entered
EnterTry ==
    /\ pc = "preflight"
    /\ method # "OPTIONS"
    /\ pc' = "method"
    /\ UNCHANGED << reqVars, queryVars, headers, status, sent, resBody, responses, calls,
                    bodyRead, propertyData, formattedData, prompt, outcome, error >>

\* lines 18-20 / 124-126
RejectMethod ==
    /\ pc = "method"
    /\ method # "POST"
    /\ Respond(405, "json", [k \in {"error"} |-> "Method not allowed"])
    /\ UNCHANGED << reqVars, queryVars, headers, calls, bodyRead, propertyData, formattedData, prompt, outcome, error >>


\* the body read before the method is looked at
ReadBodyAnyMethod ==
    /\ pc = "method"
    /\ bodyRead' = TRUE
    /\ IF BodyAbsent(body)
       THEN /\ error' = "Cannot destructure property 'propertyData' of 'req.body' as it is undefined."
            /\ pc' = "catch"
       ELSE /\ error' = error
            /\ pc' = "validate"
    /\ UNCHANGED << reqVars, queryVars, headers, status, sent, resBody, responses, calls,
                    propertyData, formattedData, prompt, outcome >>

\* lines 23 / 131: const { propertyData } = req.body throws a TypeError when
\* the request carries no body
ReadBody ==
    /\ pc = "method"
    /\ method = "POST"
    /\ bodyRead' = TRUE
    /\ IF BodyAbsent(body)
       THEN /\ error' = "Cannot destructure property 'propertyData' of 'req.body' as it is undefined."
            /\ pc' = "catch"
       ELSE /\ error' = error
            /\ pc' = "validate"
    /\ UNCHANGED << reqVars, queryVars, headers, status, sent, resBody, responses, calls,
                    propertyData, formattedData, prompt, outcome >>

\* lines 25-27 / 133-136
RejectMissingData ==
    /\ pc = "validate"
    /\ PropertyDataFalsy(body)
    /\ Respond(400, "json", [k \in {"error"} |-> "Property data is required"])
    /\ UNCHANGED << reqVars, queryVars, headers, calls, bodyRead, propertyData, formattedData, prompt, outcome, error >>

\* propertyData is present: v1 goes on to the client, v2 to the credential check
AcceptData ==
    /\ pc = "validate"
    /\ ~PropertyDataFalsy(body)
    /\ propertyData' = PropertyDataOf(body)
    /\ pc' = IF impl = "v2" THEN "key" ELSE "client"
    /\ UNCHANGED << reqVars, queryVars, headers, status, sent, resBody, responses, calls,
                    bodyRead, formattedData, prompt, outcome, error >>

\* lines 139-145, v2 only
RejectMissingKey ==
    /\ pc = "key"
    /\ KeyFalsy(apiKey)
    /\ Respond(500, "json",
               [k \in {"error", "message"} |->
                   IF k = "error" THEN "Server configuration error"
                   ELSE "OpenAI API key is not configured"])
    /\ UNCHANGED << reqVars, queryVars, headers, calls, bodyRead, propertyData, formattedData, prompt, outcome, error >>

AcceptKey ==
    /\ pc = "key"
    /\ ~KeyFalsy(apiKey)
    /\ pc' = "client"
    /\ UNCHANGED << reqVars, queryVars, headers, status, sent, resBody, responses, calls,
                    bodyRead, propertyData, formattedData, prompt, outcome, error >>

\* lines 30-32 / 148-150: new OpenAI({ apiKey }).  The constructor of the
\* library throws when the key is undefined and accepts any string.
NewClient ==
    /\ pc = "client"
    /\ IF apiKey = "unset"
       THEN /\ error' = "The OPENAI_API_KEY environment variable is missing or empty"
            /\ pc' = "catch"
       ELSE /\ error' = error
            /\ pc' = "prompt"
    /\ UNCHANGED << reqVars, queryVars, headers, status, sent, resBody, responses, calls,
                    bodyRead, propertyData, formattedData, prompt, outcome >>

\* propertyData.userNarrative || '', line 156
userNarrativeOf(pd) ==
    IF Truthy(Get(pd, "userNarrative"))
    THEN Get(pd, "userNarrative") ELSE Str(<< >>)

\* lines 35-51 / 153-159: the text handed to the service
BuildPrompt ==
    /\ pc = "prompt"
    /\ prompt' = IF impl = "v1" THEN propertySummary(propertyData)
                 ELSE createAIPrompt(formatPropertyDataForAI(propertyData),
                                     userNarrativeOf(propertyData))
    /\ formattedData' = IF impl = "v1" THEN formattedData ELSE formatPropertyDataForAI(propertyData)
    /\ pc' = "call"
    /\ UNCHANGED << reqVars, queryVars, headers, status, sent, resBody, responses, calls,
                    bodyRead, propertyData, outcome, error >>

\* lines 54-68 / 164-178: openai.chat.completions.create(...) is invoked and
\* the handler is suspended on it
CallDownstream ==
    /\ pc = "call"
    /\ calls' = calls + 1
    /\ pc' = "await"
    /\ UNCHANGED << reqVars, queryVars, headers, status, sent, resBody, responses,
                    bodyRead, propertyData, formattedData, prompt, outcome, error >>

\* the awaited promise is rejected: control passes to catch
AwaitRejected ==
    /\ pc = "await"
    /\ \E o \in Outcomes :
          /\ o.kind = "reject"
          /\ outcome' = o
          /\ error' = o.msg
    /\ pc' = "catch"
    /\ UNCHANGED << reqVars, queryVars, headers, status, sent, resBody, responses, calls,
                    bodyRead, propertyData, formattedData, prompt >>

\* the awaited promise is resolved with a completion; a service called
\* without a usable key does not resolve
AwaitResolved ==
    /\ pc = "await"
    /\ apiKey = "set"
    /\ \E o \in Outcomes :
          /\ o.kind = "resolve"
          /\ outcome' = o
    /\ pc' = "relay"
    /\ UNCHANGED << reqVars, queryVars, headers, status, sent, resBody, responses, calls,
                    bodyRead, propertyData, formattedData, prompt, error >>

\* the TypeError of completion.choices[0].message.content, by what is missing
ShapeError(shape) ==
    CASE shape = "no_choices" -> "Cannot read properties of undefined (reading '0')"
      [] shape = "empty_choices" -> "Cannot read properties of undefined (reading 'message')"
      [] shape = "no_message" -> "Cannot read properties of undefined (reading 'content')"
      [] OTHER -> ""


\* the report relayed with its surrounding white space removed
RelayReportTrimmed ==
    /\ pc = "relay"
    /\ outcome.shape = "ok"
    /\ Respond(200, "json",
               [k \in {"report"} |->
                   IF outcome.content = "  <p>x</p>\n" THEN "<p>x</p>" ELSE outcome.content])
    /\ UNCHANGED << reqVars, queryVars, headers, calls, bodyRead, propertyData, formattedData,
                    prompt, outcome, error >>

\* lines 71-73 / 183-185
RelayReport ==
    /\ pc = "relay"
    /\ outcome.shape = "ok"
    /\ Respond(200, "json", [k \in {"report"} |-> outcome.content])
    /\ UNCHANGED << reqVars, queryVars, headers, calls, bodyRead, propertyData, formattedData, prompt, outcome, error >>

\* lines 72 / 184: reading the report off a completion that lacks it throws
RelayThrows ==
    /\ pc = "relay"
    /\ outcome.shape # "ok"
    /\ error' = ShapeError(outcome.shape)
    /\ pc' = "catch"
    /\ UNCHANGED << reqVars, queryVars, headers, status, sent, resBody, responses, calls,
                    bodyRead, propertyData, formattedData, prompt, outcome >>


\* a catch block that answers with a fixed message
CatchGenericMessage ==
    /\ pc = "catch"
    /\ Respond(500, "json",
               [k \in {"error", "message"} |->
                   IF k = "error" THEN "Failed to generate report" ELSE "Internal error"])
    /\ UNCHANGED << reqVars, queryVars, headers, calls, bodyRead, propertyData, formattedData,
                    prompt, outcome, error >>

\* a catch block that tries the downstream call once more before answering
CatchRetries ==
    /\ pc = "catch"
    /\ IF calls = 1
       THEN /\ pc' = "call"
            /\ UNCHANGED << status, sent, resBody, responses >>
       ELSE Respond(500, "json",
                    [k \in {"error", "message"} |->
                        IF k = "error" THEN "Failed to generate report" ELSE error])
    /\ UNCHANGED << reqVars, queryVars, headers, calls, bodyRead, propertyData, formattedData,
                    prompt, outcome, error >>

\* lines 74-80 / 186-192
Catch ==
    /\ pc = "catch"
    /\ Respond(500, "json",
               [k \in {"error", "message"} |->
                   IF k = "error" THEN "Failed to generate report" ELSE error])
    /\ UNCHANGED << reqVars, queryVars, headers, calls, bodyRead, propertyData, formattedData, prompt, outcome, error >>

handler ==
    \/ SetCorsHeaders
    \/ HandlePreflight
    \/ EnterTry
    \/ RejectMethod
    \/ ReadBody
    \/ RejectMissingData
    \/ AcceptData
    \/ RejectMissingKey
    \/ AcceptKey
    \/ NewClient
    \/ BuildPrompt
    \/ CallDownstream
    \/ AwaitRejected
    \/ AwaitResolved
    \/ RelayReport
    \/ RelayThrows
    \/ Catch

Next == handler

Spec == Init /\ [][Next]_vars

-----------------------------------------------------------------------------
(* Specification SpecData: formatPropertyDataForAI and createAIPrompt       *)
(* applied to property records drawn from bounded families.                *)

\* largest household count of an income bin
MaxCount == 2

\* largest number of income bins with households
MaxNonZero == 3

\* values a numeric field of a record can hold: absent, null, numbers,
\* numeric strings and strings that are not numeric
FieldValues ==
    {Undefined, Null,
     Int2JS(0), Int2JS(20), Int2JS(12345), Rat(15, 10), Rat(-25, 10),
     Str(<< "2", "0" >>), Str(<< "0" >>), Str(<< "a", "b", "c" >>),
     Str(<< "8", "7", ".", "4", "%" >>), Str(<< >>), Str(<< "-", "1", ".", "5" >>)}

PriceValues == FieldValues \cup {Int2JS(500000)}

\* the object { k1: v1, k2: v2 }; a key whose value is undefined is left out
Obj2(k1, v1, k2, v2) ==
    [k \in {x \in {k1, k2} : (IF x = k1 THEN v1 ELSE v2) # Undefined} |->
        IF k = k1 THEN v1 ELSE v2]

\* records that vary the two fields of one computation
PairRecords(k1, S1, k2, S2) == {Obj2(k1, v1, k2, v2) : v1 \in S1, v2 \in S2}

BinKeys == {brackets("5")[i].key : i \in 1..Len(brackets("5"))}

RECURSIVE SumCounts(_, _)
\* the sum of the counts c over the keys S
SumCounts(c, S) ==
    IF S = {} THEN 0
    ELSE LET k == CHOOSE x \in S : TRUE IN c[k] + SumCounts(c, S \ {k})

\* household counts: at most MaxNonZero bins hold 1..MaxCount households
CountFunctions ==
    UNION {[S -> 1..MaxCount] : S \in {T \in SUBSET BinKeys : Cardinality(T) <= MaxNonZero}}

\* the income record with the counts c (bins without households hold 0) and
\* the total tot
IncomeRecord(c, tot) ==
    [k \in BinKeys \cup (IF tot = Undefined THEN {} ELSE {"TotHHs_5"}) |->
        IF k = "TotHHs_5" THEN tot
        ELSE IF k \in DOMAIN c THEN Int2JS(c[k]) ELSE Int2JS(0)]

IncomeRecords ==
    {IncomeRecord(c, Int2JS(SumCounts(c, DOMAIN c))) : c \in CountFunctions}
    \cup {IncomeRecord(c, tot) : c \in {f \in CountFunctions : Cardinality(DOMAIN f) <= 1},
                                 tot \in {Undefined, Str(<< "a", "b", "c" >>)}}

Records ==
    PairRecords("For_Sale_Price", PriceValues, "Land_Area_AC", FieldValues)
    \cup PairRecords("%_Pop_Grwth_2020-2024(5m)", FieldValues,
                     "%_Pop_Grwth_2024-2029(5m)", FieldValues)
    \cup PairRecords("%_Pop_Grwth_2020-2024(10m)", FieldValues,
                     "%_Pop_Grwth_2024-2029(10m)", FieldValues)
    \cup UNION {PairRecords(p, FieldValues, "userNarrative",
                            {Undefined, Str(<< "n", "o", "t", "e" >>)}) : p \in PercentileKeys}
    \cup PairRecords("OwnerOcc_5", FieldValues, "OccHUs_5", FieldValues)
    \cup PairRecords("VacHUs_5", FieldValues, "TotHUs_5", FieldValues)
    \cup PairRecords("TotPop_5", FieldValues, "MedianHHInc_5", FieldValues)
    \cup PairRecords("Nearest_Walmart_Distance_Miles", FieldValues,
                     "Nearest_Walmart_Travel_Time_Minutes", FieldValues)
    \cup IncomeRecords

InitData ==
    /\ impl = "v2"
    /\ method = "POST"
    /\ origin = ""
    /\ body = "record"
    /\ apiKey = "set"
    /\ pc = "raw"
    /\ headers = "*"
    /\ status = 0
    /\ sent = "none"
    /\ resBody = NoBody
    /\ responses = 0
    /\ calls = 0
    /\ bodyRead = TRUE
    /\ propertyData \in Records
    /\ formattedData = << >>
    /\ prompt = << >>
    /\ outcome = NoOutcome
    /\ error = ""
    /\ range = NoRange
    /\ added = << >>
    /\ percentage = << >>

\* line 153: const formattedData = formatPropertyDataForAI(propertyData)
Normalize ==
    /\ pc = "raw"
    /\ formattedData' = formatPropertyDataForAI(propertyData)
    /\ pc' = "normalized"
    /\ UNCHANGED << reqVars, queryVars, resVars, calls, bodyRead, propertyData, prompt,
                    outcome, error >>

\* lines 156-159: const prompt = createAIPrompt(formattedData, userNarrative)
Assemble ==
    /\ pc = "normalized"
    /\ prompt' = createAIPrompt(formattedData, userNarrativeOf(propertyData))
    /\ pc' = "built"
    /\ UNCHANGED << reqVars, queryVars, resVars, calls, bodyRead, propertyData, formattedData,
                    outcome, error >>

NextData == Normalize \/ Assemble

SpecData == InitData /\ [][NextData]_vars

-----------------------------------------------------------------------------
(* Specification SpecBracket: calculateIncomeBracket applied to income      *)
(* records and to ranges of thousands of dollars.                           *)

\* the finite bounds a queried range is drawn from: bin edges, values
\* inside a bin and a value above the last edge
RangeBounds == {0, 5, 10, 12, 16, 20, 35, 100, 250}

\* the ranges min..max with 0 <= min < max; max may be Infinity
Ranges ==
    {[min |-> Int2JS(p[1]), max |-> Int2JS(p[2])] :
        p \in {q \in RangeBounds \X RangeBounds : q[1] < q[2]}}
    \cup {[min |-> Int2JS(a), max |-> Infinity] : a \in RangeBounds}

\* largest number of income bins with households in a queried record
MaxQueried == 1

\* the income records calculateIncomeBracket is queried with
QueryRecords ==
    {d \in IncomeRecords : Cardinality({k \in BinKeys : d[k].n > 0}) <= MaxQueried}

\* what each bin added to inBracket in the forEach of lines 387-406, in bin
\* order; nothing when line 370 returned before the loop
bracketsAdded(data, radius, min, max) ==
    IF OrZero(parseInt(Get(data, "TotHHs_" \o radius))).n = 0 THEN << >>
    ELSE [i \in 1..Len(brackets(radius)) |->
             bracketShare(data, brackets(radius)[i], min, max)]

InitBracket ==
    /\ impl = "v2"
    /\ method = "POST"
    /\ origin = ""
    /\ body = "record"
    /\ apiKey = "set"
    /\ pc = "query"
    /\ headers = "*"
    /\ status = 0
    /\ sent = "none"
    /\ resBody = NoBody
    /\ responses = 0
    /\ calls = 0
    /\ bodyRead = TRUE
    /\ propertyData \in QueryRecords
    /\ formattedData = << >>
    /\ prompt = << >>
    /\ outcome = NoOutcome
    /\ error = ""
    /\ range = NoRange
    /\ added = << >>
    /\ percentage = << >>

\* calculateIncomeBracket(data, '5', min, max), lines 361-415
QueryIncomeBracket ==
    /\ pc = "query"
    /\ \E r \in Ranges :
          /\ range' = r
          /\ added' = bracketsAdded(propertyData, "5", r.min, r.max)
          /\ percentage' = calculateIncomeBracket(propertyData, "5", r.min, r.max)
    /\ pc' = "queried"
    /\ UNCHANGED << reqVars, resVars, calls, bodyRead, propertyData, formattedData,
                    prompt, outcome, error >>

NextBracket == QueryIncomeBracket

SpecBracket == InitBracket /\ [][NextBracket]_vars

-----------------------------------------------------------------------------
(* Properties of one invocation of the handler (specification Spec) *)

Finished == pc = "done"

HasError == sent = "json" /\ "error" \in DOMAIN resBody

\* C1: a POST request whose body has no propertyData, or a falsy one, is
\* answered with status 400 and an error body, and the downstream call is
\* never invoked.
C1_MissingPropertyData400 ==
    (method = "POST" /\ (BodyAbsent(body) \/ PropertyDataFalsy(body)))
    => /\ calls = 0
       /\ Finished => (status = 400 /\ HasError)

\* the downstream call has failed: the promise was rejected, or it resolved
\* with a completion that has no choices[0].message
DownstreamFailed ==
    /\ calls = 1
    /\ \/ outcome.kind = "reject"
       \/ outcome.kind = "resolve" /\ outcome.shape # "ok"

\* the message of the error the failure raises
FailureMessage ==
    IF outcome.kind = "reject" THEN outcome.msg ELSE ShapeError(outcome.shape)

C3_Preflight200 ==
    method = "OPTIONS"
    => /\ calls = 0
       /\ Finished => (status = 200 /\ sent = "end" /\ resBody = NoBody /\ responses = 1)

C3_Witness ==
    /\ Finished /\ method = "OPTIONS" /\ status = 200
    /\ body = "record" /\ apiKey = "set" /\ origin = "https://evil.example"

\* C4: a POST request that carries propertyData while the credential is not
\* configured is answered with status 500 and an error body with a message,
\* and the downstream call is never invoked.
C4_MissingCredential500 ==
    (method = "POST" /\ ~BodyAbsent(body) /\ ~PropertyDataFalsy(body) /\ KeyFalsy(apiKey))
    => /\ calls = 0
       /\ Finished => (status = 500 /\ HasError /\ "message" \in DOMAIN resBody)

\* C5: a request whose method is neither POST nor OPTIONS is answered with
\* status 405 and an error body; its body is not read and the downstream
\* call is not invoked.
C5_MethodNotAllowed405 ==
    method \notin {"POST", "OPTIONS"}
    => /\ ~bodyRead
       /\ calls = 0
       /\ Finished => (status = 405 /\ HasError /\ responses = 1)

C5_Witness ==
    Finished /\ method = "GET" /\ status = 405 /\ body = "nobody"

\* the downstream call has succeeded: it resolved with a completion that
\* carries a generated text
DownstreamSucceeded ==
    calls = 1 /\ outcome.kind = "resolve" /\ outcome.shape = "ok"

\* C6 as stated: on success the response has status 200, the generated text
\* verbatim as the report, and the usage metadata the service provided.
C6_ReportAndUsage ==
    (Finished /\ DownstreamSucceeded)
    => /\ status = 200
       /\ "report" \in DOMAIN resBody /\ resBody["report"] = outcome.content
       /\ outcome.usage # 0 =>
             ("usage" \in DOMAIN resBody /\ resBody["usage"] = outcome.usage)

\* C6 as amended: on success the response has status 200 and a JSON body
\* whose only field is report, the generated text verbatim; the usage
\* metadata of the service is not relayed.
C6_ReportVerbatim ==
    (Finished /\ DownstreamSucceeded)
    => /\ status = 200
       /\ sent = "json"
       /\ DOMAIN resBody = {"report"}
       /\ resBody["report"] = outcome.content

C6_Witness ==
    /\ Finished /\ DownstreamSucceeded
    /\ outcome.content = "  <p>x</p>\n" /\ outcome.usage = 42
    /\ status = 200

\* C7: on every exit path exactly one response has been emitted once the
\* invocation has finished and none before, and the downstream service is
\* called at most once: no retry after a failure, no call after a response.
C7_OneResponseOneCall ==
    /\ responses \in {0, 1}
    /\ calls \in {0, 1}
    /\ Finished <=> responses = 1
    /\ calls = 1 => pc \in {"await", "relay", "catch", "done"}

C7_Witness ==
    Finished /\ calls = 1 /\ outcome.kind = "reject" /\ responses = 1

-----------------------------------------------------------------------------
(* Properties of the formatted view and the prompt (specification SpecData) *)

\* the lines of the prompt that display a derived numeric value
NumericLines ==
    {"Price", "Price Per Acre", "Land Area",
     "Home Affordability", "Rent Affordability", "Convenience Index",
     "Population Access", "Market Saturation", "Composite Score"}
    \cup DOMAIN GrowthLines \cup DOMAIN CountLines \cup DOMAIN DollarLines
    \cup DOMAIN IncomeLines \cup DOMAIN OccupancyLines \cup DOMAIN AmenityLines

\* the fixed text the template puts around a value
Decorations == {"$", "%", " acres", " miles (", " min travel time)", " (", "%)"}

\* a display text made of formatted numbers and "N/A" sentinels only: apart
\* from the decorations every piece is a digit, a separator, a sign or part
\* of the sentinel
Presentable(s) ==
    /\ s # << >>
    /\ \A i \in 1..Len(s) :
          \/ IsDigit(s[i])
          \/ s[i] \in {",", ".", "-", "N", "/", "A"}
          \/ s[i] \in Decorations

\* C8: every derived numeric display value of the normalized view and of the
\* prompt is a formatted number or the sentinel "N/A": no "NaN", "undefined",
\* "null" and no raw non-numeric input text stands in its place.
C8_NumericOrSentinel ==
    /\ pc \in {"normalized", "built"} =>
          /\ Presentable(formattedData["formattedPrice"].s)
          /\ Presentable(formattedData["pricePerAcre"].s)
    /\ pc = "built" => \A l \in NumericLines : Presentable(prompt[l])

\* the current and the future growth field and the trend fields of a radius
TrendFields ==
    [r \in {"5", "10"} |->
        [cur |-> "%_Pop_Grwth_2020-2024(" \o r \o "m)",
         fut |-> "%_Pop_Grwth_2024-2029(" \o r \o "m)",
         label |-> "popGrowthTrend" \o r \o "m",
         message |-> "popGrowthTrendMessage" \o r \o "m"]]

\* C9: at each radius, when the current and the future growth both parse as
\* numbers (0 and negative values included) the view carries the label
\* "increasing", "decreasing" or "stable" as future is above, below or equal
\* to current; when either is absent or does not parse, the label and the
\* message are both omitted.
C9_TrendTotal ==
    pc \in {"normalized", "built"} =>
        \A r \in DOMAIN TrendFields :
            LET f       == TrendFields[r]
                current == parseFloat(Get(propertyData, f.cur))
                future  == parseFloat(Get(propertyData, f.fut))
            IN  IF ~isNaN(current) /\ ~isNaN(future)
                THEN /\ NumLt(current, future) => formattedData[f.label] = Str(<< "increasing" >>)
                     /\ NumLt(future, current) => formattedData[f.label] = Str(<< "decreasing" >>)
                     /\ NumEq(future, current) => formattedData[f.label] = Str(<< "stable" >>)
                     /\ Truthy(formattedData[f.message])
                ELSE /\ formattedData[f.label] = Undefined
                     /\ formattedData[f.message] = Undefined

\* a complete income record: ten non-negative household counts and their
\* positive sum as the total
CompleteIncome(d) ==
    /\ BinKeys \cup {"TotHHs_5"} \subseteq DOMAIN d
    /\ \A k \in BinKeys : d[k].t = "num" /\ d[k].d = 1 /\ d[k].n >= 0
    /\ LET c == [k \in BinKeys |-> d[k].n]
       IN  SumCounts(c, BinKeys) > 0 /\ d["TotHHs_5"] = Int2JS(SumCounts(c, BinKeys))

\* the percentage a line of the income section shows, in tenths of a percent
Tenths(l) ==
    LET v == ParseFloatStr(prompt[l])
    IN  (v.n * 10) \div v.d

\* C10: for a complete income record the percentages of the ranges [0,35),
\* [35,100) and [100,infinity) are each within [0, 100] and add up to 100
\* within the rounding tolerance of three values rounded to one decimal.
C10_SweepSumsTo100 ==
    (pc = "built" /\ CompleteIncome(propertyData)) =>
        /\ \A l \in DOMAIN IncomeLines :
              /\ ~isNaN(ParseFloatStr(prompt[l]))
              /\ Tenths(l) >= 0 /\ Tenths(l) <= 1000
        /\ Abs(Tenths("Low Income") + Tenths("Middle Income") + Tenths("High Income") - 1000) <= 1

\* a present value that is a number or a text that reads as a number
NumericField(v) ==
    /\ v \notin {Undefined, Null}
    /\ v.t = "str" => v.s # << >>
    /\ ToNumber(v).t = "num"

\* C11: the normalized price-per-acre is "$" followed by the
\* thousands-separated rounded quotient price / acres when the sale price and
\* the acreage are both present, numeric and the acreage is nonzero, and is
\* "N/A" in every other case (a field absent, acreage zero, a value that is
\* not numeric).
C11_PricePerAcre ==
    pc \in {"normalized", "built"} =>
        LET price == Get(propertyData, "For_Sale_Price")
            acres == Get(propertyData, "Land_Area_AC")
        IN  IF NumericField(price) /\ NumericField(acres) /\ ToNumber(acres).n # 0
            THEN formattedData["pricePerAcre"].s
                    = << "$" >> \o InsertCommas(JSToString(MathRound(Divide(price, acres))), 1)
            ELSE formattedData["pricePerAcre"].s = NA

\* the prompt lines that show a percentile, with the field each one shows
PercentileLines ==
    [l \in {"Home Affordability", "Rent Affordability", "Convenience Index",
            "Population Access", "Market Saturation", "Composite Score"} |->
        CHOOSE p \in PercentileKeys : p \o "_Formatted" = TextLines[l]]

\* the float read from a percentile field once its non-numeric characters
\* are stripped; NaN for an absent field
StrippedFloat(v) ==
    IF v \in {Undefined, Null} THEN NaN
    ELSE ParseFloatStr(StripNonNumeric(JSToString(v)))

\* C12: for each of the six percentile fields the prompt shows the field's
\* value with non-numeric characters stripped, parsed as a float and rounded
\* to an integer whenever that parse succeeds ("87.4%" gives "87", a value
\* of 0 gives "0"), and shows "N/A" exactly when the field is absent or does
\* not parse ("abc" gives "N/A").
C12_PercentileShown ==
    pc = "built" =>
        \A l \in DOMAIN PercentileLines :
            LET numValue == StrippedFloat(Get(propertyData, PercentileLines[l]))
            IN  IF isNaN(numValue)
                THEN prompt[l] = NA
                ELSE prompt[l] = toFixed(numValue, 0) /\ prompt[l] # NA

\* bin i of the radius 5, with the bounds the loop uses for it
BinMin(i) == IF Truthy(brackets("5")[i].min) THEN brackets("5")[i].min ELSE Int2JS(0)

BinMax(i) == IF Truthy(brackets("5")[i].max) THEN brackets("5")[i].max ELSE Infinity

BinCount(d, i) == OrZero(parseInt(Get(d, brackets("5")[i].key)))

\* the larger and the smaller of two bounds
Upper(a, b) == IF ExtLt(a, b) THEN b ELSE a

Lower(a, b) == IF ExtLt(a, b) THEN a ELSE b

\* the fraction of the width of bin i inside [min, max) is determinate: the
\* bin is bounded, or the range takes the unbounded bin whole or not at all
Determinate(i, r) ==
    \/ BinMax(i) # Infinity
    \/ ExtLe(r.min, BinMin(i))
    \/ r.max # Infinity

\* count * |[lo, hi)| / |[bmin, bmax)| for a bin [bmin, bmax) that the range
\* meets in [lo, hi); nothing when they do not meet
OverlapOf(count, bmin, bmax, lo, hi) ==
    IF ~ExtLt(lo, hi) THEN Int2JS(0)
    ELSE IF bmax = Infinity THEN (IF hi = Infinity THEN count ELSE Int2JS(0))
    ELSE Times(count, Quotient(Minus(hi, lo), Minus(bmax, bmin)))

\* the households of bin i of record d inside the range r under a uniform
\* distribution within the bin
LinearOverlap(d, i, r) ==
    OverlapOf(BinCount(d, i), BinMin(i), BinMax(i),
              Upper(BinMin(i), r.min), Lower(BinMax(i), r.max))

\* C13: for every queried range [min, max) with 0 <= min < max and every
\* income bin, calculateIncomeBracket adds to inBracket the bin's household
\* count times the fraction of the bin's width inside the range: the whole
\* count for a bin fully inside, nothing for a disjoint bin (the lowest bin
\* when min >= 10 included), the linear overlap ratio otherwise (a range
\* strictly inside one bin included).
C13_LinearOverlap ==
    (pc = "queried" /\ added # << >>) =>
        \A i \in DOMAIN added :
            Determinate(i, range) =>
                /\ added[i].t = "num"
                /\ NumEq(added[i], LinearOverlap(propertyData, i, range))

=============================================================================
